---- MODULE Spec2Model ----
(***************************************************************************)
(* A model of the paginated retrieval and reconstruction code of jira-lib: *)
(*   - JiraClient.GetIssueStatusChanges, getIssueWithChangelog and         *)
(*     fetchAdditionalHistory (lib/jiracli.go)                             *)
(*   - JiraClient.GetAllIssues / SearchIssues (lib/jiracli.go) and         *)
(*     Client.search (pkg/jira/search.go)                                  *)
(* The Jira server is the environment: every HTTP response is chosen by    *)
(* the server, within the bounds below.                                    *)
(***************************************************************************)
EXTENDS Integers, Sequences, FiniteSets, TLC

(* ------------------------------ bounds -------------------------------- *)

\* Largest number of histories in an issue's changelog.
MaxHist == 3

\* Largest timestamp (an abstract instant) the server writes in a history.
MaxTime == 2

\* Cap on the HTTP requests of one GetIssueStatusChanges call that the model
\* follows (the loop of fetchAdditionalHistory has no cap of its own).
MaxRequests == 4

\* Largest number of issues matching a query on the server.
MaxIssues == 150

\* The size of a page of a server that returns fewer issues than requested.
ShortPage == 50

\* A positive MaxResults option of GetAllIssues.
SomeMaxResults == 70

\* Largest number of issues GetRecentIssues returns to trackProjectIssues.
MaxTracked == 3

(* ------------------------- timestamps and parsing --------------------- *)

\* Go's zero time.Time (time.Time{}), what time.Parse returns with an error.
ZeroTime == 0

\* A timestamp string is modelled by the layout it is written in and the
\* instant it denotes: "rfc3339" is accepted by time.RFC3339 only (zone with a
\* colon or Z), "millis" by "2006-01-02T15:04:05.000-0700" only (zone without
\* a colon), "bad" by neither, "empty" is the empty string.
Rfc3339Str(t) == [fmt |-> "rfc3339", t |-> t]
MillisStr(t) == [fmt |-> "millis", t |-> t]
BadStr == [fmt |-> "bad", t |-> ZeroTime]
EmptyStr == [fmt |-> "empty", t |-> ZeroTime]

Times == 1..MaxTime

\* time.Parse(time.RFC3339, s): the instant and whether err == nil.
ParseRFC3339(s) ==
    IF s.fmt = "rfc3339" THEN [t |-> s.t, ok |-> TRUE] ELSE [t |-> ZeroTime, ok |-> FALSE]

\* time.Parse("2006-01-02T15:04:05.000-0700", s).
ParseMillis(s) ==
    IF s.fmt = "millis" THEN [t |-> s.t, ok |-> TRUE] ELSE [t |-> ZeroTime, ok |-> FALSE]

\* The timestamp of a history of the embedded page: primary layout, then the
\* alternative layout, then time.Now().
EmbeddedTimestamp(created, clock) ==
    IF ParseRFC3339(created).ok THEN ParseRFC3339(created).t
    ELSE IF ParseMillis(created).ok THEN ParseMillis(created).t
    ELSE clock

\* The timestamp of a history of a continuation page: errors are discarded,
\* the alternative layout is tried when the first result IsZero, and there is
\* no time.Now() fallback.
ContinuationTimestamp(created) ==
    IF ParseRFC3339(created).t # ZeroTime THEN ParseRFC3339(created).t
    ELSE ParseMillis(created).t

(* ------------------------------ histories ----------------------------- *)

NilAuthor == [present |-> FALSE, Name |-> "", EmailAddress |-> "", DisplayName |-> ""]
Alice == [present |-> TRUE, Name |-> "alice", EmailAddress |-> "alice@example.com",
          DisplayName |-> "Alice"]

StatusItem(f, t) == [Field |-> "status", FromString |-> f, ToString |-> t]
OtherItem == [Field |-> "assignee", FromString |-> "carol", ToString |-> "dave"]

History(c, a, items) == [Created |-> c, Author |-> a, Items |-> items]

\* The history entries the server may hold: a status change at each instant
\* (primary layout), the first status set with no previous status and no author
\* (alternative layout), an entry with an unparseable timestamp mixing another
\* field with two status items, and an entry without any status item.
HistoryEntries ==
    {History(Rfc3339Str(t), Alice, <<StatusItem("To Do", "In Progress")>>) : t \in Times}
    \cup {History(MillisStr(1), NilAuthor, <<StatusItem("", "To Do")>>)}
    \cup {History(BadStr, Alice,
                  <<OtherItem, StatusItem("In Progress", "Done"),
                    StatusItem("Done", "In Progress")>>)}
    \cup {History(MillisStr(MaxTime), Alice, <<OtherItem>>)}

RECURSIVE SeqsUpTo(_, _)
\* All sequences over S of length at most n.
SeqsUpTo(S, n) ==
    IF n = 0 THEN {<<>>}
    ELSE LET shorter == SeqsUpTo(S, n - 1)
         IN shorter \cup {Append(s, x) : s \in {q \in shorter : Len(q) = n - 1}, x \in S}

\* Fields.Created and Fields.Reporter.Name of the issue: the reporter is read
\* only when the creation timestamp parses.
IssueFieldValues ==
    [Created : {EmptyStr, BadStr}, Reporter : {""}]
    \cup [Created : {Rfc3339Str(1), MillisStr(1)}, Reporter : {"", "bob"}]

(* ---------------------------- StatusChange ---------------------------- *)

StatusChange(ts, from, to, a) ==
    [Timestamp |-> ts, FromStatus |-> from, ToStatus |-> to,
     Author |-> IF a.present THEN a.Name ELSE "",
     AuthorEmail |-> IF a.present THEN a.EmailAddress ELSE "",
     AuthorDisplayName |-> IF a.present THEN a.DisplayName ELSE ""]

RECURSIVE ItemChanges(_, _, _)
\* The inner loop over history.Items: one StatusChange per item whose field is
\* "status", in listed order.
ItemChanges(items, ts, a) ==
    IF items = <<>> THEN <<>>
    ELSE (IF Head(items).Field = "status"
          THEN <<StatusChange(ts, Head(items).FromString, Head(items).ToString, a)>>
          ELSE <<>>)
         \o ItemChanges(Tail(items), ts, a)

\* The steps by which the clock may move from one time.Now() of a call to the
\* next one.
ClockSteps == {0, 1}

\* Whether the embedded loop calls time.Now() for a status item of a history
\* created at this string.
ReadsClock(created) == ~ParseRFC3339(created).ok /\ ~ParseMillis(created).ok

RECURSIVE EmbeddedItemChanges(_, _, _, _, _)
\* The inner loop over history.Items of the embedded page: the timestamp is
\* parsed for each status item, so each one that falls back to time.Now()
\* reads the clock anew.
EmbeddedItemChanges(items, created, a, clock, step) ==
    IF items = <<>> THEN <<>>
    ELSE IF Head(items).Field = "status"
    THEN <<StatusChange(EmbeddedTimestamp(created, clock), Head(items).FromString,
                        Head(items).ToString, a)>>
         \o EmbeddedItemChanges(Tail(items), created, a,
                                IF ReadsClock(created) THEN clock + step ELSE clock, step)
    ELSE EmbeddedItemChanges(Tail(items), created, a, clock, step)

RECURSIVE ClockReads(_, _)
\* The number of times the inner loop reads the clock.
ClockReads(items, created) ==
    IF items = <<>> THEN 0
    ELSE (IF Head(items).Field = "status" /\ ReadsClock(created) THEN 1 ELSE 0)
         + ClockReads(Tail(items), created)

RECURSIVE EmbeddedChanges(_, _, _)
\* The loop over issueWithHistory.Changelog.Histories, started when the clock
\* reads clock.
EmbeddedChanges(hs, clock, step) ==
    IF hs = <<>> THEN <<>>
    ELSE EmbeddedItemChanges(Head(hs).Items, Head(hs).Created, Head(hs).Author, clock, step)
         \o EmbeddedChanges(Tail(hs),
                            clock + step * ClockReads(Head(hs).Items, Head(hs).Created), step)

RECURSIVE ContinuationChanges(_)
\* The loop over changelog.Histories in fetchAdditionalHistory.
ContinuationChanges(hs) ==
    IF hs = <<>> THEN <<>>
    ELSE ItemChanges(Head(hs).Items, ContinuationTimestamp(Head(hs).Created),
                     Head(hs).Author)
         \o ContinuationChanges(Tail(hs))

\* A swap loop that stops before the innermost pair.
SwapLoopOnePairShort(s, i) ==
    [k \in 1..Len(s) |->
        IF k = Len(s) \div 2 \/ k = Len(s) + 1 - (Len(s) \div 2)
        THEN s[k]
        ELSE s[Len(s) + 1 - k]]

RECURSIVE SwapLoop(_, _)
\* The swap loop at the end of GetIssueStatusChanges, from index i on (0-based):
\* elements i and len-1-i change places while i < len/2.
SwapLoop(s, i) ==
    IF i >= Len(s) \div 2 THEN s
    ELSE SwapLoop([s EXCEPT ![i + 1] = s[Len(s) - i], ![Len(s) - i] = s[i + 1]], i + 1)

\* "Sort by timestamp (oldest first)": the swap loop from index 0.
ReverseInPlace(s) == SwapLoop(s, 0)

\* time.Parse of Fields.Created: primary layout, then the alternative.
CreatedTime(created) ==
    IF ParseRFC3339(created).ok THEN ParseRFC3339(created) ELSE ParseMillis(created)

\* A creation entry that keeps the previous status of the earliest change.
InitialChangeCopy(createdTime, earliestChange, reporter) ==
    [Timestamp |-> createdTime, FromStatus |-> earliestChange.FromStatus,
     ToStatus |-> earliestChange.FromStatus,
     Author |-> IF reporter # "" THEN reporter ELSE "", AuthorEmail |-> "",
     AuthorDisplayName |-> IF reporter # "" THEN reporter ELSE ""]

\* The synthetic creation entry.
InitialChange(createdTime, earliestChange, reporter) ==
    [Timestamp |-> createdTime, FromStatus |-> "", ToStatus |-> earliestChange.FromStatus,
     Author |-> IF reporter # "" THEN reporter ELSE "", AuthorEmail |-> "",
     AuthorDisplayName |-> IF reporter # "" THEN reporter ELSE ""]

\* A backfill that takes the first discovered change as the earliest one.
WithInitialStatusFromFirst(sc, flds) ==
    IF Len(sc) > 0 /\ flds.Created # EmptyStr /\ CreatedTime(flds.Created).ok
       /\ sc[1].FromStatus # ""
    THEN Append(sc, InitialChange(CreatedTime(flds.Created).t, sc[1], flds.Reporter))
    ELSE sc

\* A backfill that does not look at the earliest change's FromStatus.
WithInitialStatusAlways(sc, flds) ==
    IF Len(sc) > 0 /\ flds.Created # EmptyStr /\ CreatedTime(flds.Created).ok
    THEN Append(sc, InitialChange(CreatedTime(flds.Created).t, sc[Len(sc)], flds.Reporter))
    ELSE sc

\* "Add the initial status as the first change (if we have the created date)".
WithInitialStatus(sc, flds) ==
    IF Len(sc) > 0 /\ flds.Created # EmptyStr /\ CreatedTime(flds.Created).ok
       /\ sc[Len(sc)].FromStatus # ""
    THEN Append(sc, InitialChange(CreatedTime(flds.Created).t, sc[Len(sc)], flds.Reporter))
    ELSE sc

\* What GetIssueStatusChanges returns once statusChanges is complete.
Reconstruct(sc, flds) == ReverseInPlace(WithInitialStatus(sc, flds))

(* ------------------------- the server's responses --------------------- *)

Min(a, b) == IF a < b THEN a ELSE b

\* The ways a GET can fail before a body is decoded, and "ok".
FailureKinds == {"transport", "nil", "status", "decode"}

\* A response to GET /issue/<key>?expand=changelog or to
\* GET /issue/<key>/changelog?startAt=<n>: how the request ended and, when it
\* decoded, the changelog object (HasChangelog is FALSE for "changelog": null).
Response(kind, has, startAt, maxResults, total, hs) ==
    [kind |-> kind, HasChangelog |-> has, StartAt |-> startAt, MaxResults |-> maxResults,
     Total |-> total, Histories |-> hs]

FailedResponse(kind) == Response(kind, FALSE, 0, 0, 0, <<>>)

\* The responses to the initial request for an issue whose changelog is cl:
\* the embedded page starts at 0, declares a page size m and the exact total,
\* and lists the first p <= m histories (p < m with histories left is a short
\* page).
IssueResponses(cl) ==
    {FailedResponse(k) : k \in FailureKinds}
    \cup {Response("ok", FALSE, 0, 0, 0, <<>>)}
    \cup {Response("ok", TRUE, 0, mp[1], Len(cl), SubSeq(cl, 1, mp[2])) :
            mp \in {x \in (0..MaxHist) \X (0..MaxHist) : x[2] <= Min(x[1], Len(cl))}}

\* The responses to a continuation request at offset s: p histories from
\* offset s on (p = 0 is an empty page) and the exact total.
ChangelogResponses(cl, s) ==
    {FailedResponse(k) : k \in FailureKinds}
    \cup {Response("ok", TRUE, s, p, Len(cl), SubSeq(cl, s + 1, s + p)) :
            p \in 0..(IF s < Len(cl) THEN Len(cl) - s ELSE 0)}

(* ------------------------------- state -------------------------------- *)

VARIABLES
    changelog,      \* server: the histories of the issue, in the order it lists them
    fields,         \* server: Fields.Created and Fields.Reporter.Name of the issue
    now,            \* the wall clock, what time.Now() returns
    pc,             \* where the GetIssueStatusChanges call is: "idle", "more", "done"
    statusChanges,  \* GetIssueStatusChanges: statusChanges, up to the backfill step
    allChanges,     \* fetchAdditionalHistory: allChanges
    currentStart,   \* fetchAdditionalHistory: currentStart
    result,         \* the returned []StatusChange (nil is the empty sequence)
    err,            \* the returned error: "nil" or the error's kind
    requestLog,     \* history: the requests issued by the call, in order
    pages,          \* history: the number of histories of each decoded page, in order
    contFailed      \* history: a continuation request of the call failed

statusVars == <<changelog, fields, now, pc, statusChanges, allChanges, currentStart,
                result, err, requestLog, pages, contFailed>>

VARIABLES
    installationType, \* JiraClient.installationType
    matching,         \* server: the number of issues matching the query
    reportsTotal,     \* server: the modern endpoint includes the total
    spc,              \* where the search call is: "idle", "loop", "done"
    op,               \* the operation called: "none" when idle
    maxResults,       \* options.MaxResults of the GetAllIssues call
    startAt,          \* GetAllIssues / GetIssuesByDateRange: startAt
    allIssues,        \* GetAllIssues / GetIssuesByDateRange: allIssues
    totalFetched,     \* GetAllIssues: totalFetched
    found,            \* the returned issues (nil is the empty sequence)
    searchErr,        \* the returned error: "nil" or the error's kind
    searchLog,        \* history: the search requests of the call, in order
    lastBody,         \* history: the body the latest search decoded
    lastResult,       \* the *SearchResult the latest search returned
    pageSizes,        \* server: the page sizes it serves
    jql,              \* the query the operation hands to SearchIssues
    lastErr           \* the error the latest search returned

searchVars == <<installationType, matching, reportsTotal, spc, op, maxResults, startAt,
                allIssues, totalFetched, found, searchErr, searchLog, lastBody, lastResult,
                pageSizes, jql, lastErr>>

VARIABLES
    timeline,         \* calculateStatusTime: changes, the sequence it is given
    statusTime,       \* calculateStatusTime: the map it returns
    tpc               \* where the calculateStatusTime call is: "idle", "done"

timeVars == <<timeline, statusTime, tpc>>

VARIABLES
    recentIssues,     \* trackProjectIssues: issues, the keys GetRecentIssues returned
    trackIndex,       \* trackProjectIssues: the number of issues the loop is through
    allIssueKeys,     \* trackProjectIssues: allIssueKeys
    allIssueChanges,  \* trackProjectIssues: allChanges
    statusCounts,     \* trackProjectIssues: statusCounts
    transitionCounts, \* trackProjectIssues: transitionCounts
    warnings,         \* history: the keys of the issues a warning was printed for
    historyLog,       \* history: each GetIssueStatusChanges call, its key and outcome
    kpc               \* where trackProjectIssues is: "idle", "loop", "done", "fatal"

trackVars == <<recentIssues, trackIndex, allIssueKeys, allIssueChanges, statusCounts,
               transitionCounts, warnings, historyLog, kpc>>

VARIABLES
    firstCall         \* caller: what it kept of an earlier GetIssueStatusChanges call

toolVars == <<timeVars, trackVars, firstCall>>

VARIABLES
    config,           \* the ClientConfig NewClient is given
    cpc,              \* where NewClient is: "new" before the call, "built" after it
    client,           \* the *JiraClient NewClient returned: "nil" or "JiraClient"
    rawClient,        \* JiraClient.client: "nil" or "client"
    clientErr         \* the error NewClient returned: "nil" or its message

clientVars == <<config, cpc, client, rawClient, clientErr>>

\* A map with no keys.
EmptyMap == [k \in {} |-> 0]

\* The caller has kept nothing of an earlier call.
NoCall == [made |-> FALSE, requestLog |-> <<>>, pages |-> <<>>, result |-> <<>>, err |-> "nil"]

\* The state in which the status-tracking tool runs nothing.
NoTool ==
    /\ timeline = <<>>
    /\ statusTime = EmptyMap
    /\ tpc = "idle"
    /\ recentIssues = <<>>
    /\ trackIndex = 0
    /\ allIssueKeys = <<>>
    /\ allIssueChanges = <<>>
    /\ statusCounts = EmptyMap
    /\ transitionCounts = EmptyMap
    /\ warnings = <<>>
    /\ historyLog = <<>>
    /\ kpc = "idle"
    /\ firstCall = NoCall

\* apiVersion3 and apiVersion2 of pkg/jira, and the installation types.
apiVersion3 == "v3"
apiVersion2 == "v2"
InstallationTypeCloud == "Cloud"
InstallationTypeLocal == "Local"

\* getIssueWithChangelog and fetchAdditionalHistory: GetV2 on a Local
\* installation, Get otherwise.
IssueVersion(installation) ==
    IF installation = InstallationTypeLocal THEN apiVersion2 ELSE apiVersion3

\* An entry of requestLog: the endpoint and path requested, its startAt
\* parameter and how the request ended.
IssueRequest(r) ==
    [ver |-> IssueVersion(installationType), path |-> "issue", startAt |-> 0,
     outcome |-> r.kind]
ChangelogRequest(s, r) ==
    [ver |-> IssueVersion(installationType), path |-> "changelog", startAt |-> s,
     outcome |-> r.kind]

(* ------------------------------ NewClient ----------------------------- *)

\* A ClientConfig; Timeout is in seconds, 0 and "" are the zero values.
ClientConfig(server, login, token, auth, timeout, installation) ==
    [Server |-> server, Login |-> login, APIToken |-> token, AuthType |-> auth,
     Timeout |-> timeout, InstallationType |-> installation]

\* What NewClient returns: the *JiraClient (nil when client is FALSE) with its
\* raw client and installation type, the settings the raw client is made with,
\* and the error.
NoClient(message) ==
    [client |-> "nil", raw |-> "nil", installationType |-> "", authType |-> "",
     timeout |-> 0, err |-> message]

\* jira.NewClient of pkg/jira: a constructor, it returns a client for every
\* configuration.
JiraNewClient == "client"

\* A validation that looks at the login before the server.
NewClientLoginFirst(c) ==
    IF c.Login = "" THEN NoClient("login is required")
    ELSE IF c.Server = "" THEN NoClient("server URL is required")
    ELSE IF c.APIToken = "" THEN NoClient("API token is required")
    ELSE [client |-> "JiraClient", raw |-> JiraNewClient,
          installationType |-> IF c.InstallationType = "" THEN InstallationTypeCloud
                               ELSE c.InstallationType,
          authType |-> IF c.AuthType = "" THEN "basic" ELSE c.AuthType,
          timeout |-> IF c.Timeout = 0 THEN 15 ELSE c.Timeout,
          err |-> "nil"]

\* NewClient: the three required fields in turn, then the defaults and the
\* client.
NewClient(c) ==
    IF c.Server = "" THEN NoClient("server URL is required")
    ELSE IF c.Login = "" THEN NoClient("login is required")
    ELSE IF c.APIToken = "" THEN NoClient("API token is required")
    ELSE [client |-> "JiraClient", raw |-> JiraNewClient,
          installationType |-> IF c.InstallationType = "" THEN InstallationTypeCloud
                               ELSE c.InstallationType,
          authType |-> IF c.AuthType = "" THEN "basic" ELSE c.AuthType,
          timeout |-> IF c.Timeout = 0 THEN 15 ELSE c.Timeout,
          err |-> "nil"]

\* The client is there: NewClient has returned one.
HasClient ==
    /\ cpc = "built"
    /\ client = "JiraClient"
    /\ rawClient = JiraNewClient
    /\ clientErr = "nil"

\* The client NewClient makes of a configuration that names all three
\* required fields and this installation type.
Built ==
    /\ config = ClientConfig("https://test.atlassian.net", "test@example.com", "test-token",
                             "", 0, installationType)
    /\ NewClient(config).installationType = installationType
    /\ HasClient

\* http.StatusOK.
StatusOK == 200

\* A search response: how the round trip ended, the status code of the
\* response, its raw body and what the body decodes to.
SearchBody(kind, code, total, issues, isLast) ==
    [kind |-> kind, StatusCode |-> code,
     Body |-> IF kind \in {"transport", "nil"} THEN "" ELSE kind \o " body " \o ToString(code),
     Total |-> total, Issues |-> issues, IsLast |-> isLast]

\* The nil *SearchResult.
NoResult == [Total |-> 0, Issues |-> <<>>, IsLast |-> FALSE, nil |-> TRUE]

\* The errors Client.search returns; NoError is the nil error.
NoError == [kind |-> "nil", StatusCode |-> 0, Body |-> ""]
TransportError == [kind |-> "transport", StatusCode |-> 0, Body |-> ""]
ErrEmptyResponse == [kind |-> "ErrEmptyResponse", StatusCode |-> 0, Body |-> ""]
DecodeError == [kind |-> "decode", StatusCode |-> 0, Body |-> ""]

\* The state in which no search call is in progress.
SearchIdle ==
    /\ spc = "idle"
    /\ op = "none"
    /\ maxResults = 0
    /\ startAt = 0
    /\ allIssues = <<>>
    /\ totalFetched = 0
    /\ found = <<>>
    /\ searchErr = "nil"
    /\ searchLog = <<>>
    /\ lastBody = SearchBody("ok", StatusOK, 0, <<>>, FALSE)
    /\ lastResult = NoResult
    /\ jql = ""
    /\ lastErr = NoError

\* The client and server of the search operations while the model follows a
\* GetIssueStatusChanges call, and the issue while it follows a search.
NoSearch ==
    /\ installationType = InstallationTypeCloud
    /\ matching = 0
    /\ reportsTotal = TRUE
    /\ pageSizes = {}
    /\ SearchIdle

\* The state in which no call is in progress.
Idle ==
    /\ pc = "idle"
    /\ statusChanges = <<>>
    /\ allChanges = <<>>
    /\ currentStart = 0
    /\ result = <<>>
    /\ err = "nil"
    /\ requestLog = <<>>
    /\ pages = <<>>
    /\ contFailed = FALSE

\* The same for the issue while the model follows a search.
NoIssue ==
    /\ changelog = <<>>
    /\ fields = [Created |-> EmptyStr, Reporter |-> ""]
    /\ now = MaxTime + 1
    /\ Idle

Init ==
    /\ changelog \in SeqsUpTo(HistoryEntries, MaxHist)
    /\ fields \in IssueFieldValues
    /\ now = MaxTime + 1   \* the call's clock reading is later than every history
    /\ Idle
    /\ NoSearch
    /\ NoTool
    /\ Built

\* Whether getIssueWithChangelog returns an error for this response.
IssueFetchFailsOnTransportOnly(r) == r.kind \in {"transport", "nil"}

IssueFetchFails(r) == r.kind # "ok"

\* Whether fetchAdditionalHistory returns an error for this response.
PageFetchFails(r) == r.kind # "ok"

\* A pagination test that also asks for more when the page holds the total.
NeedsMoreHistoryAtTotal(r) == r.Total >= r.StartAt + r.MaxResults

\* "Check if we need to fetch more history (pagination)".
NeedsMoreHistory(r) == r.Total > r.StartAt + r.MaxResults

\* The offset GetIssueStatusChanges hands to fetchAdditionalHistory.
FirstContinuationStart(r) == r.MaxResults

\* "Check if we need more pages": the loop of fetchAdditionalHistory ends.
NoMorePages(start, r) == start + Len(r.Histories) >= r.Total

\* statusChanges after the call of fetchAdditionalHistory has returned
\* (additionalChanges, e): the additional changes are appended only when e is nil.
AppendAdditional(sc, additionalChanges, failed) ==
    IF failed THEN sc ELSE sc \o additionalChanges

\* GetIssueStatusChanges up to and including the initial request: the request,
\* the extraction from the embedded page and, unless continuation pages are
\* needed, the backfill, the reversal and the return.
FetchIssue ==
    /\ HasClient
    /\ pc = "idle"
    /\ \E r \in IssueResponses(changelog) :
       \E step \in ClockSteps :
        /\ requestLog' = Append(requestLog, IssueRequest(r))
        /\ IF IssueFetchFails(r)
           THEN /\ result' = <<>>
                /\ err' = "failed to fetch issue with changelog"
                /\ pc' = "done"
                /\ UNCHANGED <<statusChanges, currentStart, pages>>
           ELSE LET sc == IF r.HasChangelog THEN EmbeddedChanges(r.Histories, now, step) ELSE <<>>
                IN /\ statusChanges' = sc
                   /\ pages' = Append(pages, Len(r.Histories))
                   /\ IF r.HasChangelog /\ NeedsMoreHistory(r)
                      THEN /\ pc' = "more"
                           /\ currentStart' = FirstContinuationStart(r)
                           /\ UNCHANGED <<result, err>>
                      ELSE /\ pc' = "done"
                           /\ result' = Reconstruct(sc, fields)
                           /\ err' = "nil"
                           /\ UNCHANGED currentStart
    /\ UNCHANGED <<changelog, fields, now, allChanges, contFailed>>
    /\ UNCHANGED <<searchVars, toolVars, clientVars>>

\* One iteration of the loop of fetchAdditionalHistory and, when the loop ends
\* (by an error or by the page test), the rest of GetIssueStatusChanges.
FetchPage ==
    /\ HasClient
    /\ pc = "more"
    /\ Len(requestLog) < MaxRequests
    /\ \E r \in ChangelogResponses(changelog, currentStart) :
        /\ requestLog' = Append(requestLog, ChangelogRequest(currentStart, r))
        /\ IF PageFetchFails(r)
           THEN /\ contFailed' = TRUE
                /\ pc' = "done"
                /\ statusChanges' = AppendAdditional(statusChanges, allChanges, TRUE)
                /\ result' = Reconstruct(statusChanges', fields)
                /\ err' = "nil"
                /\ UNCHANGED <<allChanges, currentStart, pages>>
           ELSE LET more == allChanges \o ContinuationChanges(r.Histories)
                IN /\ allChanges' = more
                   /\ pages' = Append(pages, Len(r.Histories))
                   /\ UNCHANGED contFailed
                   /\ IF NoMorePages(currentStart, r)
                      THEN /\ pc' = "done"
                           /\ statusChanges' = AppendAdditional(statusChanges, more, FALSE)
                           /\ result' = Reconstruct(statusChanges', fields)
                           /\ err' = "nil"
                           /\ UNCHANGED currentStart
                      ELSE /\ currentStart' = currentStart + Len(r.Histories)
                           /\ UNCHANGED <<pc, result, err, statusChanges>>
    /\ UNCHANGED <<changelog, fields, now>>
    /\ UNCHANGED <<searchVars, toolVars, clientVars>>

\* A client that keeps allChanges from one call to the next.
ResetCallKeepsChanges ==
    /\ pc' = "idle"
    /\ statusChanges' = <<>>
    /\ allChanges' = allChanges
    /\ currentStart' = 0
    /\ result' = <<>>
    /\ err' = "nil"
    /\ requestLog' = <<>>
    /\ pages' = <<>>
    /\ contFailed' = FALSE

\* The call is over: statusChanges, allChanges and currentStart are locals of
\* the call, and the JiraClient has no field they could be kept in.
ResetCall ==
    /\ pc' = "idle"
    /\ statusChanges' = <<>>
    /\ allChanges' = <<>>
    /\ currentStart' = 0
    /\ result' = <<>>
    /\ err' = "nil"
    /\ requestLog' = <<>>
    /\ pages' = <<>>
    /\ contFailed' = FALSE

\* The caller has the result; the client keeps nothing of the call.
Return ==
    /\ pc = "done"
    /\ ResetCall
    /\ UNCHANGED <<changelog, fields, now>>
    /\ UNCHANGED <<searchVars, toolVars, clientVars>>

Next == FetchIssue \/ FetchPage \/ Return

\* The caller keeps what the call returned, with the responses it got, and
\* is about to call GetIssueStatusChanges for the same issue once more; the
\* clock has moved on or not.
CallAgain ==
    /\ pc = "done"
    /\ ~firstCall.made
    /\ firstCall' = [made |-> TRUE, requestLog |-> requestLog, pages |-> pages,
                     result |-> result, err |-> err]
    /\ ResetCall
    /\ now' \in {now, now + 1}
    /\ UNCHANGED <<changelog, fields>>
    /\ UNCHANGED <<searchVars, timeVars, trackVars, clientVars>>

\* An issue of up to two histories, called for twice.
InitTwoCalls ==
    /\ changelog \in SeqsUpTo(HistoryEntries, 2)
    /\ fields \in {[Created |-> EmptyStr, Reporter |-> ""],
                    [Created |-> Rfc3339Str(1), Reporter |-> "bob"]}
    /\ now = MaxTime + 1
    /\ Idle
    /\ NoSearch
    /\ NoTool
    /\ Built

NextTwoCalls == FetchIssue \/ FetchPage \/ CallAgain

(* ----------------------- definitions for the claims ------------------- *)

\* The call has returned without an error.
Returned == pc = "done" /\ err = "nil"

\* The histories the call has decoded, page after page, in the order listed.
RECURSIVE FetchedFrom(_)
FetchedFrom(k) ==
    IF k > Len(pages) THEN <<>>
    ELSE SubSeq(changelog, requestLog[k].startAt + 1, requestLog[k].startAt + pages[k])
         \o FetchedFrom(k + 1)

FetchedHistories == FetchedFrom(1)

IsStatus(item) == item.Field = "status"

RECURSIVE StatusItemsOf(_)
\* Every status item of the histories hs, in order, with the timestamp string
\* and the author of its history.
StatusItemsOf(hs) ==
    IF hs = <<>> THEN <<>>
    ELSE [i \in 1..Len(SelectSeq(Head(hs).Items, IsStatus)) |->
            [item |-> SelectSeq(Head(hs).Items, IsStatus)[i],
             created |-> Head(hs).Created, author |-> Head(hs).Author]]
         \o StatusItemsOf(Tail(hs))

\* The element of the result that discovery position i (1 = first found) ends at.
AtDiscovery(i) == result[Len(result) + 1 - i]

\* The result holds, at discovery positions 1..Len(items), exactly the
\* transitions of items, and beyond them at most a creation entry.
ResultHoldsExactly(items) ==
    /\ Len(result) \in {Len(items), Len(items) + 1}
    /\ \A i \in 1..Len(items) :
        /\ AtDiscovery(i).FromStatus = items[i].item.FromString
        /\ AtDiscovery(i).ToStatus = items[i].item.ToString
        /\ AtDiscovery(i).Author = items[i].author.Name
    /\ Len(result) = Len(items) + 1 => result[1].FromStatus = ""

\* The transitions the call has found and kept when it reaches the backfill
\* step: statusChanges as "if len(statusChanges) > 0" reads it.
Kept == statusChanges

\* Fields.Created is present and parses in one of the two layouts.
CreatedParses == fields.Created.fmt \in {"rfc3339", "millis"}

\* C1 (as claimed): when a continuation request fails after at least one
\* continuation page was decoded, the call returns a nil error and the result
\* holds the transitions of every page decoded before the failure.
C1_PartialResultKeepsEarlierPages ==
    (pc = "done" /\ contFailed /\ Len(pages) >= 2)
        => (err = "nil" /\ ResultHoldsExactly(StatusItemsOf(FetchedHistories)))

\* C2 (as claimed): the pager stops after a continuation page with zero
\* histories, and never issues more than ceil(total / pageSize) + 1 requests
\* (at most total + 1, the smallest page holding one history).
C2_PagerTerminates ==
    /\ (Len(pages) >= 2 /\ pages[Len(pages)] = 0) => pc = "done"
    /\ Len(requestLog) <= Len(changelog) + 1

\* C3 (as claimed): the timestamps of every returned sequence are ascending.
C3_ChronologicalOrder ==
    Returned => \A i \in 1..(Len(result) - 1) : result[i].Timestamp <= result[i + 1].Timestamp

\* C4 (as claimed): when every request succeeds, the result holds exactly one
\* StatusChange per status item of all the histories of the changelog, plus at
\* most one creation entry, and every continuation request starts at the number
\* of histories already retrieved.
RECURSIVE SumTo(_, _)
SumTo(s, k) == IF k = 0 THEN 0 ELSE s[k] + SumTo(s, k - 1)

C4_ChangelogComplete ==
    (Returned /\ ~contFailed)
        => /\ ResultHoldsExactly(StatusItemsOf(changelog))
           /\ \A k \in 2..Len(requestLog) : requestLog[k].startAt = SumTo(pages, k - 1)

\* C6: when a transition was kept, the creation timestamp parses and the
\* last-discovered transition has a previous status, the result starts with
\* the creation entry (no previous status, new status = the previous status of
\* the element after it, the creation instant, the reporter) followed by the
\* kept transitions, last-discovered first.
C6_InitialStatusBackfill ==
    (Returned /\ Len(Kept) > 0 /\ CreatedParses /\ Kept[Len(Kept)].FromStatus # "")
        => /\ Len(result) = Len(Kept) + 1
           /\ result[1].FromStatus = ""
           /\ result[1].ToStatus = result[2].FromStatus
           /\ result[1].Timestamp = fields.Created.t
           /\ result[1].Author = fields.Reporter
           /\ \A i \in 1..Len(Kept) : result[i + 1] = Kept[Len(Kept) + 1 - i]

\* C6, witness: the example of the specification, one history To Do -> In
\* Progress at instant 2 of an issue created at instant 1.
C6_Witness ==
    /\ Returned
    /\ Len(result) = 2
    /\ result[1].FromStatus = "" /\ result[1].ToStatus = "To Do" /\ result[1].Timestamp = 1
    /\ result[2].FromStatus = "To Do" /\ result[2].ToStatus = "In Progress"
    /\ result[2].Timestamp = 2

\* C7: no creation entry is added when no transition was kept, when the
\* creation timestamp is empty or parses in neither layout, or when the
\* last-discovered transition has no previous status; the result is then the
\* kept transitions, one element each, and the error is nil.
NoBackfillCase ==
    \/ Len(Kept) = 0
    \/ ~CreatedParses
    \/ Kept[Len(Kept)].FromStatus = ""

C7_NoSpuriousBackfill ==
    (pc = "done" /\ requestLog[1].outcome = "ok" /\ NoBackfillCase)
        => /\ err = "nil"
           /\ Len(result) = Len(Kept)
           /\ \A i \in 1..Len(Kept) : result[i] = Kept[Len(Kept) + 1 - i]

\* C7, witness: transitions were kept and the creation timestamp parses, yet
\* the last-discovered transition has no previous status.
C7_Witness ==
    /\ Returned
    /\ Len(Kept) > 1
    /\ CreatedParses
    /\ Kept[Len(Kept)].FromStatus = ""
    /\ Len(result) = Len(Kept)

\* C8: when the initial request fails in any way, the call returns a nil
\* sequence and an error, and no continuation request is issued.
C8_PrimaryFailureAborts ==
    (Len(requestLog) >= 1 /\ requestLog[1].outcome \in FailureKinds)
        => /\ pc = "done"
           /\ result = <<>>
           /\ err # "nil"
           /\ Len(requestLog) = 1

\* C8, witness: the initial request got a response with a status other than
\* 200 for an issue that has histories.
C8_Witness ==
    /\ pc = "done"
    /\ Len(requestLog) = 1
    /\ requestLog[1].outcome = "status"
    /\ Len(changelog) > 0
    /\ err # "nil"

\* Whether ts is a timestamp the fallback chain gives a created string: the
\* instant it denotes in either layout, a clock reading of the call otherwise.
FallbackChain(created, ts) ==
    IF created.fmt = "rfc3339" THEN ts = created.t
    ELSE IF created.fmt = "millis" THEN ts = created.t
    ELSE ts >= now

\* C9 (as claimed): every transition of every decoded page, embedded or
\* continuation, is in the result with the timestamp of the fallback chain.
C9_TimestampFallbackChain ==
    (Returned /\ ~contFailed)
        => /\ Len(result) >= Len(StatusItemsOf(FetchedHistories))
           /\ \A i \in 1..Len(StatusItemsOf(FetchedHistories)) :
                FallbackChain(StatusItemsOf(FetchedHistories)[i].created,
                              AtDiscovery(i).Timestamp)

\* C21: a non-empty result of an issue whose creation timestamp parses starts
\* with an element that has no previous status; the first element of a result
\* has a previous status only when the creation timestamp is empty or parses
\* in neither layout.
C21_CreationEntryFirst ==
    (Returned /\ Len(result) > 0)
        => /\ CreatedParses => result[1].FromStatus = ""
           /\ result[1].FromStatus # "" => ~CreatedParses

\* C21, witness: a result of two pages whose first element is the creation
\* entry, ahead of a transition that has a previous status.
C21_Witness ==
    /\ Returned
    /\ CreatedParses
    /\ Len(requestLog) > 1
    /\ Len(result) = Len(Kept) + 1
    /\ Len(Kept) > 1
    /\ result[1].FromStatus = ""
    /\ result[1].Timestamp = fields.Created.t
    /\ result[2].FromStatus # ""

\* The second call has returned after the same requests and the same
\* responses as the first one.
SameResponses ==
    /\ firstCall.made
    /\ pc = "done"
    /\ requestLog = firstCall.requestLog
    /\ pages = firstCall.pages

EmbeddedTimestampsParse ==
    Len(pages) > 0 =>
        \A i \in 1..pages[1] : ~ReadsClock(changelog[i].Created)

EmbeddedCovers == Len(pages) >= 1 /\ pages[1] >= Len(changelog)

RECURSIVE EntryStatusItems(_, _)
\* Every status item of the histories hs, in order, with the position of its
\* history (the first one of hs is the n-th) and the author of that history.
EntryStatusItems(hs, n) ==
    IF hs = <<>> THEN <<>>
    ELSE [i \in 1..Len(SelectSeq(Head(hs).Items, IsStatus)) |->
            [item |-> SelectSeq(Head(hs).Items, IsStatus)[i], entry |-> n,
             author |-> Head(hs).Author]]
         \o EntryStatusItems(Tail(hs), n + 1)

\* The transitions found are, one for one and in order, the status items of
\* the decoded histories, with the statuses and the author of each.
OnePerStatusItem(items) ==
    /\ Len(Kept) = Len(items)
    /\ \A i \in 1..Len(items) :
        /\ Kept[i].FromStatus = items[i].item.FromString
        /\ Kept[i].ToStatus = items[i].item.ToString
        /\ items[i].author.present
              => /\ Kept[i].Author = items[i].author.Name
                 /\ Kept[i].AuthorEmail = items[i].author.EmailAddress
                 /\ Kept[i].AuthorDisplayName = items[i].author.DisplayName
        /\ ~items[i].author.present
              => /\ Kept[i].Author = ""
                 /\ Kept[i].AuthorEmail = ""
                 /\ Kept[i].AuthorDisplayName = ""

\* The transitions of the status items of one history have one timestamp and
\* one actor.
EntryShared(items) ==
    \A i, j \in 1..Len(items) :
        items[i].entry = items[j].entry
            => /\ Kept[i].Timestamp = Kept[j].Timestamp
               /\ Kept[i].Author = Kept[j].Author

\* The part of C27 that leaves the timestamps aside: one transition for each
\* status item and none for another item, statuses verbatim, the author's
\* three fields empty for a null author.
StatusFilter ==
    (pc = "done" /\ Len(pages) >= 1 /\ ~contFailed)
        => OnePerStatusItem(EntryStatusItems(FetchedHistories, 1))

\* C27 (as claimed): the same, and the transitions of several status items of
\* one history share that history's timestamp and actor.
C27_StatusFilter ==
    (pc = "done" /\ Len(pages) >= 1 /\ ~contFailed)
        => /\ OnePerStatusItem(EntryStatusItems(FetchedHistories, 1))
           /\ EntryShared(EntryStatusItems(FetchedHistories, 1))

\* The sequence s back to front.
Reverse(s) == [i \in 1..Len(s) |-> s[Len(s) + 1 - i]]

\* The transitions in the order of discovery: those of the embedded page,
\* then those of the continuation pages, then the creation entry if the
\* backfill adds one.
Discovered == WithInitialStatus(Kept, fields)

\* C28: the result of a call is the transitions in the order of discovery,
\* back to front, none lost, doubled or altered; and when no continuation
\* request failed these are the status items of the embedded page in listed
\* order followed by those of the continuation pages in the order fetched.
C28_ReversalOfDiscoveryOrder ==
    Returned
        => /\ Len(result) = Len(Discovered)
           /\ result = Reverse(Discovered)
           /\ ~contFailed => OnePerStatusItem(EntryStatusItems(FetchedHistories, 1))

\* C28, witness: a result of even length: one transition of the embedded
\* page, two of a continuation page and the creation entry.
C28_Witness ==
    /\ Returned
    /\ ~contFailed
    /\ Len(requestLog) = 2
    /\ pages[1] = 1
    /\ Len(Kept) = 3
    /\ Len(result) = 4
    /\ result[1].FromStatus = ""
    /\ result[4] = Kept[1]
    /\ result[4] # result[3]


(* -------------------------------- JQL --------------------------------- *)

\* A query is a string; Len, SubSeq and \o act on its characters.

UpperCase == <<"A", "B", "C", "D", "E", "F", "G", "H", "I", "J", "K", "L", "M",
               "N", "O", "P", "Q", "R", "S", "T", "U", "V", "W", "X", "Y", "Z">>
LowerCase == <<"a", "b", "c", "d", "e", "f", "g", "h", "i", "j", "k", "l", "m",
               "n", "o", "p", "q", "r", "s", "t", "u", "v", "w", "x", "y", "z">>

LowerChar(c) ==
    LET at == {i \in 1..Len(UpperCase) : UpperCase[i] = c}
    IN IF at = {} THEN c ELSE LowerCase[CHOOSE i \in at : TRUE]

\* strings.ToLower.
RECURSIVE ToLower(_)
ToLower(s) ==
    IF Len(s) = 0 THEN ""
    ELSE LowerChar(SubSeq(s, 1, 1)) \o ToLower(SubSeq(s, 2, Len(s)))

\* strings.Contains.
Contains(s, t) == \E i \in 1..(Len(s) - Len(t) + 1) : SubSeq(s, i, i + Len(t) - 1) = t

\* boundingTerms of isJQLBounded.
boundingTerms ==
    <<"created >=", "created >", "created =", "created <=", "created <",
      "updated >=", "updated >", "updated =", "updated <=", "updated <",
      "project =", "project in", "project IN",
      "id =", "id in", "id IN",
      "key =", "key in", "key IN",
      "issuekey =", "issuekey in", "issuekey IN">>

\* strings.ToLower(term) of each term.
lowerTerms == [k \in 1..Len(boundingTerms) |-> ToLower(boundingTerms[k])]

\* isJQLBounded: the lower-cased query contains a lower-cased bounding term.
isJQLBounded(query) ==
    LET jqlLower == ToLower(query)
    IN \E k \in 1..Len(boundingTerms) : Contains(jqlLower, lowerTerms[k])

\* "Add a default bound - issues created in last 90 days", without the
\* parentheses.
DefaultBoundBare(query) ==
    IF query = "" THEN "created >= -90d" ELSE "created >= -90d AND " \o query

\* A default bound on a field that is not a bounding term.
DefaultBoundOnResolved(query) ==
    IF query = "" THEN "resolved >= -90d" ELSE "resolved >= -90d AND (" \o query \o ")"

\* "Add a default bound - issues created in last 90 days".
DefaultBound(query) ==
    IF query = "" THEN "created >= -90d" ELSE "created >= -90d AND (" \o query \o ")"

\* A bounding step that also runs on the legacy endpoint.
SentQueryAnyVersion(ver, query) ==
    IF ~isJQLBounded(query) THEN DefaultBound(query) ELSE query

\* The query Client.search puts in the request.
SentQuery(ver, query) ==
    IF ver = apiVersion3 /\ ~isJQLBounded(query) THEN DefaultBound(query) ELSE query

\* The queries callers hand to SearchIssues directly.
CallerQueries ==
    {"", "assignee = bob", "project = PROJ", "Project IN (A, B)", "created>=-7d"}

\* The options of a GetAllIssues call, MaxResults apart; the last ones are
\* those GetRecentIssues builds.
Options(project, startDate, dateField, custom, orderBy) ==
    [Project |-> project, StartDate |-> startDate, DateField |-> dateField,
     JQL |-> custom, OrderBy |-> orderBy]

AllIssuesOptions ==
    {Options("", "", "", "", ""),
     Options("", "2024-01-01", "resolved", "assignee = bob", "priority"),
     Options("PROJ", "-7d", "created", "", "created DESC")}

\* "Build JQL query" of GetAllIssues.
JoinAnd(parts) ==
    IF Len(parts) = 0 THEN ""
    ELSE IF Len(parts) = 1 THEN parts[1]
    ELSE IF Len(parts) = 2 THEN parts[1] \o " AND " \o parts[2]
    ELSE parts[1] \o " AND " \o parts[2] \o " AND " \o parts[3]

\* "Add ordering": the clause GetAllIssues appends to the filter.
OrderClause(options) ==
    IF options.OrderBy # "" THEN " ORDER BY " \o options.OrderBy
    ELSE " ORDER BY created DESC"

AllIssuesJQL(options) ==
    LET projectPart == IF options.Project # "" THEN <<"project = " \o options.Project>> ELSE <<>>
        dateField == IF options.DateField = "" THEN "created" ELSE options.DateField
        datePart == IF options.StartDate # ""
                    THEN <<dateField \o " >= '" \o options.StartDate \o "'">>
                    ELSE <<>>
        customPart == IF options.JQL # "" THEN <<"(" \o options.JQL \o ")">> ELSE <<>>
        jqlParts == projectPart \o datePart \o customPart
    IN JoinAnd(jqlParts) \o OrderClause(options)

\* The query of GetIssuesByDateRange.
DateFields == {"", "resolved"}

DateRangeJQL(startDate, endDate, field) ==
    LET dateField == IF field = "" THEN "created" ELSE field
    IN dateField \o " >= '" \o startDate \o "' AND " \o dateField \o " <= '" \o endDate
       \o "' ORDER BY " \o dateField \o " DESC"


(* ------------------------------- search ------------------------------- *)

\* const batchSize = 100 of GetAllIssues and of GetIssuesByDateRange.
batchSize == 100

\* "set to a large number": the Total of a page that is not the last.
UnknownTotal == 10000

\* The issues at offsets from..to-1 of the server's matching issues; issue i
\* is the i-th match in server order.
IssueRange(from, to) == [i \in 1..(IF to > from THEN to - from ELSE 0) |-> from + i]

\* The responses of a server holding n matching issues to a search at offset
\* from for at most limit issues. The legacy endpoint always reports the exact
\* total; the modern endpoint reports it only when reports is TRUE and flags
\* the last page. The server returns a page of one of the sizes it serves. A
\* response of kind "status" has a status other than 200, a response of kind
\* "decode" a body that is not a search result.
ErrorStatuses == {201, 404, 500}

SearchResponses(ver, n, reports, from, limit) ==
    {SearchBody(k, 0, 0, <<>>, FALSE) : k \in {"transport", "nil"}}
    \cup {SearchBody("status", code, 0, <<>>, FALSE) : code \in ErrorStatuses}
    \cup {SearchBody("decode", StatusOK, 0, <<>>, FALSE)}
    \cup {SearchBody("ok", StatusOK,
                     IF ver = apiVersion2 \/ reports THEN n ELSE 0,
                     IssueRange(from, Min(from + size, n)),
                     ver = apiVersion3 /\ from + size >= n) :
            size \in {Min(sz, limit) : sz \in pageSizes}}

\* A rewrite of Total that does not look at IsLast.
SearchTotalWithoutIsLast(ver, from, out) ==
    IF ver = apiVersion3 /\ out.Total = 0 /\ Len(out.Issues) > 0
    THEN UnknownTotal
    ELSE out.Total

\* "For the new endpoint, Total might not be provided, calculate it from
\* response": out.Total as Client.search returns it.
SearchTotal(ver, from, out) ==
    IF ver = apiVersion3 /\ out.Total = 0 /\ Len(out.Issues) > 0
    THEN IF out.IsLast THEN from + Len(out.Issues) ELSE UnknownTotal
    ELSE out.Total

\* formatUnexpectedResponse: the error carries the status and the body.
ErrUnexpectedResponse(r) ==
    [kind |-> "ErrUnexpectedResponse", StatusCode |-> r.StatusCode, Body |-> r.Body]

\* An error check that tries to decode before it looks at the response.
SearchErrorDecodeFirst(r) ==
    IF r.kind = "transport" THEN TransportError
    ELSE IF r.kind # "ok" THEN DecodeError
    ELSE NoError

\* The error Client.search returns for this response, nil when it returns a
\* result.
SearchError(r) ==
    IF r.kind = "transport" THEN TransportError
    ELSE IF r.kind = "nil" THEN ErrEmptyResponse
    ELSE IF r.StatusCode # StatusOK THEN ErrUnexpectedResponse(r)
    ELSE IF r.kind = "decode" THEN DecodeError
    ELSE NoError

\* Whether Client.search returns an error for this response.
SearchFails(r) == SearchError(r) # NoError

\* The *SearchResult Client.search returns for a decoded response.
SearchResult(ver, from, r) ==
    [Total |-> SearchTotal(ver, from, r), Issues |-> r.Issues, IsLast |-> r.IsLast]

\* A choice that keeps Search for the Cloud only.
SearchVersionUnlessCloud(installation) ==
    IF installation = InstallationTypeCloud THEN apiVersion3 ELSE apiVersion2

\* JiraClient.SearchIssues: SearchV2 on a Local installation, Search otherwise.
SearchVersion(installation) ==
    IF installation = InstallationTypeLocal THEN apiVersion2 ELSE apiVersion3

\* An entry of searchLog: the endpoint, the caller's query, whether it was
\* judged bounded, the query, offset and limit of the request and how the
\* request ended.
SearchRequest(ver, query, from, limit, r) ==
    [ver |-> ver, jql |-> query, bounded |-> isJQLBounded(query),
     query |-> SentQuery(ver, query), from |-> from, limit |-> limit, outcome |-> r.kind]

InitSearch ==
    /\ NoIssue
    /\ installationType \in {InstallationTypeCloud, InstallationTypeLocal}
    /\ matching \in 0..MaxIssues
    /\ reportsTotal \in BOOLEAN
    /\ installationType = InstallationTypeLocal => reportsTotal
    /\ pageSizes = {ShortPage, batchSize}
    /\ SearchIdle
    /\ NoTool
    /\ Built

\* A limit that stops the loop and trims nothing.
KeepAllFetched(issues, limit) == issues

\* The issues GetAllIssues returns when the MaxResults limit is reached.
TrimToMaxResults(issues, limit) ==
    IF Len(issues) > limit THEN SubSeq(issues, 1, limit) ELSE issues

\* A check that goes on when the page ends exactly at the total.
FetchedBeyond(from, results) == from + Len(results.Issues) > results.Total

\* "Check if we've fetched all issues".
FetchedAll(from, results) == from + Len(results.Issues) >= results.Total

\* A search that repeats a failed request once.
SearchedWithRetry(query, from, limit, r) ==
    /\ searchLog' = IF SearchFails(r)
                    THEN searchLog \o <<SearchRequest(SearchVersion(installationType), query,
                                                      from, limit, r),
                                        SearchRequest(SearchVersion(installationType), query,
                                                      from, limit, r)>>
                    ELSE Append(searchLog, SearchRequest(SearchVersion(installationType),
                                                         query, from, limit, r))
    /\ lastBody' = r
    /\ lastErr' = SearchError(r)
    /\ lastResult' = IF SearchFails(r) THEN NoResult
                     ELSE SearchResult(SearchVersion(installationType), from, r)

\* One search through JiraClient.SearchIssues: what the log, the decoded body
\* and the returned result become.
Searched(query, from, limit, r) ==
    /\ searchLog' = Append(searchLog, SearchRequest(SearchVersion(installationType), query,
                                                    from, limit, r))
    /\ lastBody' = r
    /\ lastErr' = SearchError(r)
    /\ lastResult' = IF SearchFails(r) THEN NoResult
                     ELSE SearchResult(SearchVersion(installationType), from, r)

\* JiraClient.SearchIssues called directly, at some offset.
SearchIssues ==
    /\ HasClient
    /\ spc = "idle"
    /\ \E query \in CallerQueries :
       \E from \in {0, ShortPage, batchSize} :
       \E r \in SearchResponses(SearchVersion(installationType), matching, reportsTotal,
                                from, batchSize) :
        /\ jql' = query
        /\ Searched(query, from, batchSize, r)
        /\ spc' = "done"
        /\ op' = "SearchIssues"
        /\ found' = lastResult'.Issues
        /\ searchErr' = lastErr'.kind
    /\ UNCHANGED <<installationType, matching, reportsTotal, pageSizes, maxResults, startAt,
                   allIssues, totalFetched>>
    /\ UNCHANGED <<statusVars, toolVars, clientVars>>

\* fmt.Errorf("failed to fetch issues at offset %d: %w", startAt, err).
ErrAtOffset(offset) == "failed to fetch issues at offset " \o ToString(offset)

\* A GetAllIssues that returns the issues it has when a search fails.
PartialOnError(issues) == issues

\* "return nil, fmt.Errorf(...)": the issues GetAllIssues returns when a
\* search fails, whatever it has fetched.
IssuesOnError(issues) == <<>>

\* One iteration of the loop of GetAllIssues (the first one starts the call)
\* and, when the loop ends, the return.
GetAllIssues ==
    /\ HasClient
    /\ spc = "idle" \/ (spc = "loop" /\ op = "GetAllIssues")
    /\ \E limit \in (IF spc = "idle" THEN {0, SomeMaxResults} ELSE {maxResults}) :
       \E query \in (IF spc = "idle" THEN {AllIssuesJQL(o) : o \in AllIssuesOptions}
                     ELSE {jql}) :
       \E r \in SearchResponses(SearchVersion(installationType), matching, reportsTotal,
                                startAt, batchSize) :
        /\ jql' = query
        /\ Searched(query, startAt, batchSize, r)
        /\ op' = "GetAllIssues"
        /\ maxResults' = limit
        /\ IF SearchFails(r)
           THEN /\ found' = IssuesOnError(allIssues)
                /\ searchErr' = ErrAtOffset(startAt)
                /\ spc' = "done"
                /\ UNCHANGED <<allIssues, totalFetched, startAt>>
           ELSE LET results == lastResult'
                    fetched == totalFetched + Len(results.Issues)
                IN /\ allIssues' = allIssues \o results.Issues
                   /\ totalFetched' = fetched
                   /\ IF limit > 0 /\ fetched >= limit
                      THEN /\ found' = TrimToMaxResults(allIssues', limit)
                           /\ searchErr' = "nil"
                           /\ spc' = "done"
                           /\ UNCHANGED startAt
                      ELSE IF FetchedAll(startAt, results) \/ Len(results.Issues) = 0
                      THEN /\ found' = allIssues'
                           /\ searchErr' = "nil"
                           /\ spc' = "done"
                           /\ UNCHANGED startAt
                      ELSE /\ startAt' = startAt + batchSize
                           /\ spc' = "loop"
                           /\ UNCHANGED <<found, searchErr>>
    /\ UNCHANGED <<installationType, matching, reportsTotal, pageSizes>>
    /\ UNCHANGED <<statusVars, toolVars, clientVars>>

\* One iteration of the loop of GetIssuesByDateRange and, when it ends, the
\* return.
GetIssuesByDateRange ==
    /\ HasClient
    /\ spc = "idle" \/ (spc = "loop" /\ op = "GetIssuesByDateRange")
    /\ \E query \in (IF spc = "idle"
                     THEN {DateRangeJQL("2024-01-01", "2024-12-31", f) : f \in DateFields}
                     ELSE {jql}) :
       \E r \in SearchResponses(SearchVersion(installationType), matching, reportsTotal,
                                startAt, batchSize) :
        /\ jql' = query
        /\ Searched(query, startAt, batchSize, r)
        /\ op' = "GetIssuesByDateRange"
        /\ IF SearchFails(r)
           THEN /\ found' = <<>>
                /\ searchErr' = "failed to fetch issues"
                /\ spc' = "done"
                /\ UNCHANGED <<allIssues, startAt>>
           ELSE LET results == lastResult'
                IN /\ allIssues' = allIssues \o results.Issues
                   /\ IF FetchedAll(startAt, results) \/ Len(results.Issues) = 0
                      THEN /\ found' = allIssues'
                           /\ searchErr' = "nil"
                           /\ spc' = "done"
                           /\ UNCHANGED startAt
                      ELSE /\ startAt' = startAt + batchSize
                           /\ spc' = "loop"
                           /\ UNCHANGED <<found, searchErr>>
    /\ UNCHANGED <<installationType, matching, reportsTotal, pageSizes, maxResults,
                   totalFetched>>
    /\ UNCHANGED <<statusVars, toolVars, clientVars>>

\* The caller has the result; the client keeps nothing of the call.
ReturnSearch ==
    /\ spc = "done"
    /\ spc' = "idle"
    /\ op' = "none"
    /\ maxResults' = 0
    /\ startAt' = 0
    /\ allIssues' = <<>>
    /\ totalFetched' = 0
    /\ found' = <<>>
    /\ searchErr' = "nil"
    /\ searchLog' = <<>>
    /\ lastBody' = SearchBody("ok", StatusOK, 0, <<>>, FALSE)
    /\ lastResult' = NoResult
    /\ jql' = ""
    /\ lastErr' = NoError
    /\ UNCHANGED <<installationType, matching, reportsTotal, pageSizes>>
    /\ UNCHANGED <<statusVars, toolVars, clientVars>>

NextSearch == SearchIssues \/ GetAllIssues \/ GetIssuesByDateRange \/ ReturnSearch

\* C5 (as claimed): with MaxResults = 0, every search succeeding and a server
\* that reports the exact total, GetAllIssues and GetIssuesByDateRange return
\* each matching issue exactly once, in server order, whatever the size of the
\* pages the server returns.
ExactTotal == installationType = InstallationTypeLocal \/ reportsTotal

C5_AllIssuesComplete ==
    (spc = "done" /\ op \in {"GetAllIssues", "GetIssuesByDateRange"} /\ maxResults = 0
     /\ searchErr = "nil" /\ ExactTotal)
        => found = IssueRange(0, matching)

\* C10: for a successful modern search at offset from, Total is from + the
\* number of issues when the body has no total, has issues and is flagged last;
\* 10000 when it has no total, has issues and is not flagged last; the body's
\* total otherwise. On the legacy endpoint Total is the body's total.
LastSearch == searchLog[Len(searchLog)]

C10_TotalApproximation ==
    (Len(searchLog) > 0 /\ LastSearch.outcome = "ok")
        => IF LastSearch.ver = apiVersion3
           THEN /\ (lastBody.Total = 0 /\ Len(lastBody.Issues) > 0 /\ lastBody.IsLast)
                     => lastResult.Total = LastSearch.from + Len(lastBody.Issues)
                /\ (lastBody.Total = 0 /\ Len(lastBody.Issues) > 0 /\ ~lastBody.IsLast)
                     => lastResult.Total = 10000
                /\ (lastBody.Total # 0 \/ Len(lastBody.Issues) = 0)
                     => lastResult.Total = lastBody.Total
           ELSE lastResult.Total = lastBody.Total

\* C10, witness: a modern search at a positive offset decoded a last page with
\* issues and no total.
C10_Witness ==
    /\ Len(searchLog) > 0
    /\ LastSearch.outcome = "ok"
    /\ LastSearch.ver = apiVersion3
    /\ LastSearch.from > 0
    /\ lastBody.Total = 0
    /\ Len(lastBody.Issues) > 0
    /\ lastBody.IsLast
    /\ lastResult.Total = LastSearch.from + Len(lastBody.Issues)

\* C12: the loops of GetAllIssues and GetIssuesByDateRange go on only after a
\* page with issues for which startAt + len(issues) < Total, and a call with no
\* limit that returns without error has just received a page for which
\* startAt + len(issues) >= Total or which has no issues; the k-th request is at
\* offset 100 * (k - 1); against a server that reports the exact total T the
\* call issues at most ceil(T / 100) + 1 requests.
Paging == op \in {"GetAllIssues", "GetIssuesByDateRange"}

CeilDiv(a, b) == (a + b - 1) \div b

EndOfPages ==
    \/ LastSearch.from + Len(lastResult.Issues) >= lastResult.Total
    \/ Len(lastResult.Issues) = 0

C12_SearchPaginationTerminates ==
    Paging =>
        /\ spc = "loop" => (LastSearch.outcome = "ok" /\ ~EndOfPages)
        /\ (spc = "done" /\ searchErr = "nil" /\ maxResults = 0) => EndOfPages
        /\ \A k \in 1..Len(searchLog) : searchLog[k].from = 100 * (k - 1)
        /\ ExactTotal => Len(searchLog) <= CeilDiv(matching, 100) + 1

\* C12, witness: a call against a server that reports the exact total returned
\* after its second request.
C12_Witness ==
    /\ Paging
    /\ spc = "done"
    /\ searchErr = "nil"
    /\ maxResults = 0
    /\ ExactTotal
    /\ Len(searchLog) = 2
    /\ searchLog[2].from = 100
    /\ EndOfPages

\* C13: with MaxResults > 0, GetAllIssues returns the first MaxResults of the
\* issues fetched, in fetch order (all of them when fewer were fetched), and
\* issues a further request only while fewer than MaxResults issues have been
\* fetched; with MaxResults = 0 it returns every issue fetched.
C13_MaxResultsCap ==
    op = "GetAllIssues" =>
        /\ (maxResults > 0 /\ spc = "done" /\ searchErr = "nil")
              => /\ Len(found) <= maxResults
                 /\ found = SubSeq(allIssues, 1, Min(maxResults, Len(allIssues)))
        /\ (maxResults > 0 /\ spc = "loop") => totalFetched < maxResults
        /\ (maxResults = 0 /\ spc = "done" /\ searchErr = "nil") => found = allIssues

\* C13, witness: a call with a limit fetched more issues than the limit and
\* returned exactly the limit.
C13_Witness ==
    /\ op = "GetAllIssues"
    /\ spc = "done"
    /\ searchErr = "nil"
    /\ maxResults > 0
    /\ Len(allIssues) > maxResults
    /\ Len(found) = maxResults

\* C14: on the modern endpoint a query judged unbounded is sent as
\* "created >= -90d" when it is empty and as "created >= -90d AND (<query>)"
\* otherwise; a query judged bounded is sent unchanged.
C14_BoundSynthesis ==
    (Len(searchLog) > 0 /\ LastSearch.ver = apiVersion3)
        => /\ IF LastSearch.bounded THEN LastSearch.query = LastSearch.jql
              ELSE IF LastSearch.jql = "" THEN LastSearch.query = "created >= -90d"
              ELSE LastSearch.query = "created >= -90d AND (" \o LastSearch.jql \o ")"
           /\ LastSearch.jql = "assignee = bob"
                => LastSearch.query = "created >= -90d AND (assignee = bob)"

\* C14, witness: a modern search for "assignee = bob" sent the query with the
\* bound.
C14_Witness ==
    /\ Len(searchLog) > 0
    /\ LastSearch.ver = apiVersion3
    /\ LastSearch.jql = "assignee = bob"
    /\ ~LastSearch.bounded
    /\ LastSearch.query = "created >= -90d AND (assignee = bob)"

\* C15: the bounding step of the modern endpoint applied to its own output
\* changes nothing.
C15_BoundingIdempotent ==
    Len(searchLog) > 0
        => SentQuery(apiVersion3, SentQuery(apiVersion3, LastSearch.jql))
             = SentQuery(apiVersion3, LastSearch.jql)

\* C15, witness: a modern search added the bound to its query, and the step
\* leaves the query it sent as it is.
C15_Witness ==
    /\ Len(searchLog) > 0
    /\ LastSearch.ver = apiVersion3
    /\ ~LastSearch.bounded
    /\ LastSearch.query # LastSearch.jql
    /\ LastSearch.jql # ""
    /\ SentQuery(apiVersion3, LastSearch.query) = LastSearch.query

\* C16: on the legacy endpoint the query sent is the caller's query, and the
\* Total of the result is the Total of the body.
C16_LegacyBypassesBounding ==
    (Len(searchLog) > 0 /\ LastSearch.ver = apiVersion2)
        => /\ LastSearch.query = LastSearch.jql
           /\ LastSearch.outcome = "ok" => lastResult.Total = lastBody.Total

\* C16, witness: a legacy search sent the empty query, which is judged
\* unbounded, and returned the total of the body.
C16_Witness ==
    /\ Len(searchLog) > 0
    /\ LastSearch.ver = apiVersion2
    /\ LastSearch.jql = ""
    /\ ~LastSearch.bounded
    /\ LastSearch.query = ""
    /\ LastSearch.outcome = "ok"
    /\ lastResult.Total = matching
    /\ matching > 0

\* C17: a search returns a result only when the round trip succeeded, there is
\* a response, its status is 2xx and its body decodes; a transport failure is
\* returned as it is, a nil response gives ErrEmptyResponse, a status that is
\* not 2xx gives an ErrUnexpectedResponse with the status and the body of the
\* response, and an error comes with no result.
Status2xx(code) == code >= 200 /\ code <= 299

C17_SearchErrorOutcomes ==
    Len(searchLog) > 0
        => /\ lastResult # NoResult
                => /\ lastBody.kind = "ok"
                   /\ Status2xx(lastBody.StatusCode)
                   /\ lastErr = NoError
           /\ lastBody.kind = "transport" => lastErr = TransportError
           /\ lastBody.kind = "nil" => lastErr = ErrEmptyResponse
           /\ (lastBody.kind \notin {"transport", "nil"} /\ ~Status2xx(lastBody.StatusCode))
                => /\ lastErr.kind = "ErrUnexpectedResponse"
                   /\ lastErr.StatusCode = lastBody.StatusCode
                   /\ lastErr.Body = lastBody.Body
           /\ lastErr # NoError => lastResult = NoResult
           /\ lastErr = NoError => lastResult # NoResult

\* C17, witness: a search got a 404 and returned the error that carries it.
C17_Witness ==
    /\ Len(searchLog) > 0
    /\ lastBody.kind = "status"
    /\ lastBody.StatusCode = 404
    /\ lastErr = [kind |-> "ErrUnexpectedResponse", StatusCode |-> 404, Body |-> lastBody.Body]
    /\ lastResult = NoResult

\* C25: a search issues one request whatever its outcome: a SearchIssues call
\* has one request in its log when it returns; in a paging operation the i-th
\* search is the one request for the i-th page; and no request follows a
\* failed one.
C25_OneRequestPerSearch ==
    /\ (op = "SearchIssues" /\ spc = "done") => Len(searchLog) = 1
    /\ op \in {"GetAllIssues", "GetIssuesByDateRange"}
          => \A i \in 1..Len(searchLog) : searchLog[i].from = (i - 1) * batchSize
    /\ \A i \in 1..Len(searchLog) :
          searchLog[i].outcome # "ok" => (i = Len(searchLog) /\ spc = "done")

\* C25, witness: a paging operation whose second search failed to decode and
\* which returned after these two requests.
C25_Witness ==
    /\ op = "GetIssuesByDateRange"
    /\ spc = "done"
    /\ Len(searchLog) = 2
    /\ searchLog[1].outcome = "ok"
    /\ searchLog[2].outcome = "decode"
    /\ searchErr # "nil"

\* C29: when a search of GetAllIssues fails, on the first page or a later
\* one, the call returns no issues and an error that names the offset of the
\* failed request, whatever it had fetched, and requests nothing more.
C29_AllOrNothing ==
    (op = "GetAllIssues" /\ Len(searchLog) >= 1
     /\ searchLog[Len(searchLog)].outcome # "ok")
        => /\ spc = "done"
           /\ found = <<>>
           /\ searchErr = "failed to fetch issues at offset "
                              \o ToString(searchLog[Len(searchLog)].from)
           /\ searchLog[Len(searchLog)].from = (Len(searchLog) - 1) * batchSize

\* C29, witness: the first page came with a hundred issues, the search for
\* the second page failed, and nothing is returned.
C29_Witness ==
    /\ op = "GetAllIssues"
    /\ spc = "done"
    /\ Len(searchLog) = 2
    /\ searchLog[2].outcome = "transport"
    /\ Len(allIssues) = batchSize
    /\ found = <<>>
    /\ searchErr = "failed to fetch issues at offset " \o ToString(batchSize)

\* strings.HasSuffix.
HasSuffix(s, suffix) ==
    Len(s) >= Len(suffix) /\ SubSeq(s, Len(s) - Len(suffix) + 1, Len(s)) = suffix

\* C30 (as claimed): whatever the options of GetAllIssues, the query sent to
\* the modern endpoint ends with the ORDER BY clause GetAllIssues appended;
\* the clause is not inside the parentheses of the bounding step.
C30_OrderByOutsideBound ==
    (op = "GetAllIssues" /\ Len(searchLog) > 0 /\ LastSearch.ver = apiVersion3)
        => \A o \in AllIssuesOptions :
              AllIssuesJQL(o) = LastSearch.jql
                  => /\ HasSuffix(LastSearch.query, OrderClause(o))
                     /\ ~HasSuffix(LastSearch.query, OrderClause(o) \o ")")

\* A modern server that holds more issues than the sentinel total, never
\* reports a total and serves full pages.
ManyIssues == UnknownTotal + ShortPage

InitUnknownTotal ==
    /\ NoIssue
    /\ installationType = InstallationTypeCloud
    /\ matching = ManyIssues
    /\ reportsTotal = FALSE
    /\ pageSizes = {batchSize}
    /\ SearchIdle
    /\ NoTool
    /\ Built

NextUnknownTotal == GetAllIssues \/ ReturnSearch

\* C11 (as claimed): on the modern dialect, against a server that never
\* reports a total, a GetAllIssues call with MaxResults = 0 that returns
\* without error has just received a page flagged as the last one or a page
\* with no issues, whatever the number of issues fetched before.
C11_UnknownTotalKeepsPaging ==
    (spc = "done" /\ op = "GetAllIssues" /\ maxResults = 0 /\ searchErr = "nil"
     /\ installationType = InstallationTypeCloud /\ ~reportsTotal)
        => (lastBody.IsLast \/ Len(lastBody.Issues) = 0)


(* ------------------------- calculateStatusTime ------------------------- *)

\* time.Duration is a signed integer of fixed width: maxDuration stands for
\* 1<<63 - 1 nanoseconds, about 292 years.
maxDuration == 7
minDuration == -maxDuration - 1

\* The position of an instant on the time line. The zero time is year 1: it
\* is further than a Duration before every instant a server or the clock
\* gives.
WallClock(t) == IF t = ZeroTime THEN 0 ELSE 2 * maxDuration + t

\* Time.Sub: the difference, or the largest or smallest Duration when the
\* difference does not fit.
TimeSub(t, u) ==
    LET d == WallClock(t) - WallClock(u)
    IN IF d > maxDuration THEN maxDuration
       ELSE IF d < minDuration THEN minDuration
       ELSE d

\* The sum of two Durations: integer addition wraps around.
DurationAdd(a, b) ==
    ((a + b - minDuration) % (2 * (maxDuration + 1))) + minDuration

\* A duration that always runs to the clock reading.
DurationToNow(changes, clock, i) == TimeSub(clock, changes[i].Timestamp)

\* duration of iteration i: to the next entry, to the clock for the last.
EntryDuration(changes, clock, i) ==
    IF i < Len(changes)
    THEN TimeSub(changes[i + 1].Timestamp, changes[i].Timestamp)
    ELSE TimeSub(clock, changes[i].Timestamp)

\* An assignment in place of the addition.
Overwrite(m, status, duration) ==
    [k \in DOMAIN m \cup {status} |-> IF k = status THEN duration ELSE m[k]]

\* statusTime[change.ToStatus] += duration; a missing key reads as 0.
Accumulate(m, status, duration) ==
    [k \in DOMAIN m \cup {status} |->
        IF k = status
        THEN DurationAdd(IF status \in DOMAIN m THEN m[status] ELSE 0, duration)
        ELSE m[k]]

\* The loop of calculateStatusTime from iteration i on.
RECURSIVE StatusTimeLoop(_, _, _, _)
StatusTimeLoop(changes, clock, i, m) ==
    IF i > Len(changes) THEN m
    ELSE StatusTimeLoop(changes, clock, i + 1,
                        Accumulate(m, changes[i].ToStatus, EntryDuration(changes, clock, i)))

calculateStatusTime(changes, clock) == StatusTimeLoop(changes, clock, 1, EmptyMap)

\* The entries of the sequences calculateStatusTime is given: any status at
\* any instant, the zero time fetchAdditionalHistory leaves included.
Statuses == {"To Do", "In Progress"}

TimelineEntries ==
    {StatusChange(ts, "", to, Alice) : ts \in {ZeroTime} \cup Times, to \in Statuses}

InitStatusTime ==
    /\ changelog = <<>>
    /\ fields = [Created |-> EmptyStr, Reporter |-> ""]
    /\ now \in 1..(MaxTime + 1)
    /\ Idle
    /\ NoSearch
    /\ timeline \in SeqsUpTo(TimelineEntries, MaxHist)
    /\ statusTime = EmptyMap
    /\ tpc = "idle"
    /\ recentIssues = <<>>
    /\ trackIndex = 0
    /\ allIssueKeys = <<>>
    /\ allIssueChanges = <<>>
    /\ statusCounts = EmptyMap
    /\ transitionCounts = EmptyMap
    /\ warnings = <<>>
    /\ historyLog = <<>>
    /\ kpc = "idle"
    /\ firstCall = NoCall
    /\ Built

\* calculateStatusTime(changes), with time.Now() reading now.
CalculateStatusTime ==
    /\ tpc = "idle"
    /\ statusTime' = calculateStatusTime(timeline, now)
    /\ tpc' = "done"
    /\ UNCHANGED <<timeline, trackVars, firstCall, statusVars, searchVars, clientVars>>

\* The caller has the map.
ReturnStatusTime ==
    /\ tpc = "done"
    /\ statusTime' = EmptyMap
    /\ tpc' = "idle"
    /\ UNCHANGED <<timeline, trackVars, firstCall, statusVars, searchVars, clientVars>>

NextStatusTime == CalculateStatusTime \/ ReturnStatusTime

\* The sum of the Durations of a map, as Durations add.
RECURSIVE DurationSum(_, _)
DurationSum(m, keys) ==
    IF keys = {} THEN 0
    ELSE LET k == CHOOSE x \in keys : TRUE
         IN DurationAdd(m[k], DurationSum(m, keys \ {k}))

\* C18 (as claimed): for a sequence that is not empty, the durations of the
\* returned map add up to now - Timestamp of the first entry, ascending or not.
C18_DurationSum ==
    (tpc = "done" /\ Len(timeline) > 0)
        => DurationSum(statusTime, DOMAIN statusTime) = TimeSub(now, timeline[1].Timestamp)

\* C18 (amended): when the distances between consecutive timestamps, and from
\* the last timestamp to now, add up to no more than the largest Duration, the
\* durations of the returned map add up to now - Timestamp of the first entry,
\* ascending or not.
Distance(t, u) ==
    IF WallClock(t) >= WallClock(u) THEN WallClock(t) - WallClock(u)
    ELSE WallClock(u) - WallClock(t)

RECURSIVE Spread(_)
Spread(i) ==
    IF i > Len(timeline) THEN 0
    ELSE Distance(IF i < Len(timeline) THEN timeline[i + 1].Timestamp ELSE now,
                  timeline[i].Timestamp) + Spread(i + 1)

RECURSIVE MapTotal(_, _)
MapTotal(m, keys) ==
    IF keys = {} THEN 0
    ELSE LET k == CHOOSE x \in keys : TRUE
         IN m[k] + MapTotal(m, keys \ {k})

C18_DurationSumWithinRange ==
    (tpc = "done" /\ Len(timeline) > 0 /\ Spread(1) <= maxDuration)
        => MapTotal(statusTime, DOMAIN statusTime)
             = WallClock(now) - WallClock(timeline[1].Timestamp)

\* C18, witness: the map of a sequence of three entries that is not ascending
\* and has two statuses.
C18_Witness ==
    /\ tpc = "done"
    /\ Len(timeline) = 3
    /\ Spread(1) <= maxDuration
    /\ WallClock(timeline[2].Timestamp) < WallClock(timeline[1].Timestamp)
    /\ DOMAIN statusTime = Statuses
    /\ MapTotal(statusTime, Statuses) = WallClock(now) - WallClock(timeline[1].Timestamp)
    /\ now # timeline[1].Timestamp

\* C19: the returned map has the statuses that are the ToStatus of an entry as
\* its keys, and maps each to the sum, over the entries with that ToStatus, of
\* the Duration to the next entry, or to now for the last entry; the map of
\* the empty sequence is empty.
Occurrences(status) == {i \in 1..Len(timeline) : timeline[i].ToStatus = status}

Residency(i) ==
    IF i = Len(timeline)
    THEN TimeSub(now, timeline[i].Timestamp)
    ELSE TimeSub(timeline[i + 1].Timestamp, timeline[i].Timestamp)

RECURSIVE ResidencySum(_)
ResidencySum(at) ==
    IF at = {} THEN 0
    ELSE LET i == CHOOSE x \in at : TRUE
         IN DurationAdd(Residency(i), ResidencySum(at \ {i}))

C19_ResidencyAggregation ==
    tpc = "done"
        => /\ DOMAIN statusTime = {timeline[i].ToStatus : i \in 1..Len(timeline)}
           /\ \A status \in DOMAIN statusTime :
                statusTime[status] = ResidencySum(Occurrences(status))
           /\ Len(timeline) = 0 => statusTime = EmptyMap

\* C19, witness: a status recurs after another one, both have a residency
\* that is not zero, and the third status is not a key.
C19_Witness ==
    /\ tpc = "done"
    /\ Len(timeline) = 3
    /\ timeline[1].ToStatus = "To Do"
    /\ timeline[2].ToStatus = "In Progress"
    /\ timeline[3].ToStatus = "To Do"
    /\ Residency(1) > 0
    /\ Residency(3) > 0
    /\ statusTime["To Do"] = Residency(1) + Residency(3)
    /\ DOMAIN statusTime = {"To Do", "In Progress"}


(* ------------------------- trackProjectIssues -------------------------- *)

\* The keys of the issues GetRecentIssues returns, in the order of the result.
IssueKey(i) == "PROJ-" \o ToString(i)

\* What a GetIssueStatusChanges call gives trackProjectIssues: an error, or a
\* sequence of status changes that may be empty.
HistoryOutcome(failed, changes) == [err |-> failed, changes |-> changes]

HistoryOutcomes ==
    {HistoryOutcome(TRUE, <<>>)}
    \cup {HistoryOutcome(FALSE, h) :
            h \in {<<>>,
                   <<StatusChange(1, "", "To Do", NilAuthor)>>,
                   <<StatusChange(1, "", "To Do", NilAuthor),
                     StatusChange(MaxTime, "To Do", "In Progress", Alice)>>}}

\* counts[key]++; a missing key reads as 0.
Increment(counts, key) ==
    [k \in DOMAIN counts \cup {key} |->
        IF k = key THEN (IF key \in DOMAIN counts THEN counts[key] ELSE 0) + 1
        ELSE counts[k]]

\* The key of transitionCounts: FromStatus, an arrow, ToStatus.
Transition(change) == change.FromStatus \o " -> " \o change.ToStatus

\* "Collect statistics": statusCounts after the changes from index i on.
RECURSIVE CountStatuses(_, _, _)
CountStatuses(counts, changes, i) ==
    IF i > Len(changes) THEN counts
    ELSE CountStatuses(Increment(counts, changes[i].ToStatus), changes, i + 1)

\* "Collect statistics": transitionCounts after the changes from index i on.
RECURSIVE CountTransitions(_, _, _)
CountTransitions(counts, changes, i) ==
    IF i > Len(changes) THEN counts
    ELSE CountTransitions(IF changes[i].FromStatus # ""
                          THEN Increment(counts, Transition(changes[i]))
                          ELSE counts,
                          changes, i + 1)

\* A loop that an error ends.
LoopStopsAtError(failed, index, total) ==
    IF failed \/ index = total THEN "done" ELSE "loop"

\* Where the loop over issues is after the iteration that brought it through
\* index of total issues: an error continues with the next issue.
LoopAfter(failed, index, total) == IF index = total THEN "done" ELSE "loop"

\* trackProjectIssues up to the loop: GetRecentIssues fails, which ends the
\* program, or returns some issues.
TrackStart ==
    /\ kpc = "idle"
    /\ \E failed \in BOOLEAN :
       \E n \in 0..MaxTracked :
        IF failed
        THEN /\ kpc' = "fatal"
             /\ recentIssues' = <<>>
        ELSE /\ kpc' = LoopAfter(FALSE, 0, n)
             /\ recentIssues' = [i \in 1..n |-> IssueKey(i)]
    /\ trackIndex' = 0
    /\ allIssueKeys' = <<>>
    /\ allIssueChanges' = <<>>
    /\ statusCounts' = EmptyMap
    /\ transitionCounts' = EmptyMap
    /\ warnings' = <<>>
    /\ historyLog' = <<>>
    /\ UNCHANGED <<timeVars, firstCall, statusVars, searchVars, clientVars>>

\* One iteration of the loop over issues.
TrackIssue ==
    /\ kpc = "loop"
    /\ \E o \in HistoryOutcomes :
       LET key == recentIssues[trackIndex + 1]
       IN /\ historyLog' = Append(historyLog, [key |-> key, outcome |-> o])
          /\ IF o.err
             THEN /\ warnings' = Append(warnings, key)
                  /\ UNCHANGED <<allIssueKeys, allIssueChanges, statusCounts,
                                 transitionCounts>>
             ELSE IF Len(o.changes) > 0
             THEN /\ allIssueKeys' = Append(allIssueKeys, key)
                  /\ allIssueChanges' = Append(allIssueChanges, o.changes)
                  /\ statusCounts' = CountStatuses(statusCounts, o.changes, 1)
                  /\ transitionCounts' = CountTransitions(transitionCounts, o.changes, 1)
                  /\ UNCHANGED warnings
             ELSE UNCHANGED <<allIssueKeys, allIssueChanges, statusCounts,
                              transitionCounts, warnings>>
          /\ trackIndex' = trackIndex + 1
          /\ kpc' = LoopAfter(o.err, trackIndex + 1, Len(recentIssues))
    /\ UNCHANGED <<recentIssues, timeVars, firstCall, statusVars, searchVars, clientVars>>

\* The reports are printed, or the program has ended.
TrackReturn ==
    /\ kpc \in {"done", "fatal"}
    /\ kpc' = "idle"
    /\ recentIssues' = <<>>
    /\ trackIndex' = 0
    /\ allIssueKeys' = <<>>
    /\ allIssueChanges' = <<>>
    /\ statusCounts' = EmptyMap
    /\ transitionCounts' = EmptyMap
    /\ warnings' = <<>>
    /\ historyLog' = <<>>
    /\ UNCHANGED <<timeVars, firstCall, statusVars, searchVars, clientVars>>

InitTrack ==
    /\ NoIssue
    /\ NoSearch
    /\ NoTool
    /\ Built

NextTrack == TrackStart \/ TrackIssue \/ TrackReturn

\* C20: trackProjectIssues asks for the history of the issues of the search
\* one at a time in their order, and of every one of them by the time the loop
\* is done, errors or not; each error is reported; the collected keys and
\* histories are those of the calls that gave a history that is not empty, in
\* order and index by index, and the counts are over those histories only.
Collected(e) == ~e.outcome.err /\ Len(e.outcome.changes) > 0
Failed(e) == e.outcome.err

KeysOf(log) == [i \in 1..Len(log) |-> log[i].key]
ChangesOf(log) == [i \in 1..Len(log) |-> log[i].outcome.changes]

RECURSIVE Flatten(_)
Flatten(seqs) == IF seqs = <<>> THEN <<>> ELSE Head(seqs) \o Flatten(Tail(seqs))

CollectedChanges == Flatten(ChangesOf(SelectSeq(historyLog, Collected)))

C20_BatchSurvivesFailure ==
    kpc \in {"loop", "done"}
        => /\ KeysOf(historyLog) = SubSeq(recentIssues, 1, trackIndex)
           /\ kpc = "done" => trackIndex = Len(recentIssues)
           /\ warnings = KeysOf(SelectSeq(historyLog, Failed))
           /\ allIssueKeys = KeysOf(SelectSeq(historyLog, Collected))
           /\ allIssueChanges = ChangesOf(SelectSeq(historyLog, Collected))
           /\ Len(allIssueKeys) = Len(allIssueChanges)
           /\ DOMAIN statusCounts
                = {CollectedChanges[i].ToStatus : i \in 1..Len(CollectedChanges)}
           /\ \A status \in DOMAIN statusCounts :
                statusCounts[status]
                  = Cardinality({i \in 1..Len(CollectedChanges) :
                                   CollectedChanges[i].ToStatus = status})
           /\ DOMAIN transitionCounts
                = {Transition(CollectedChanges[i]) :
                     i \in {j \in 1..Len(CollectedChanges) :
                              CollectedChanges[j].FromStatus # ""}}
           /\ \A t \in DOMAIN transitionCounts :
                transitionCounts[t]
                  = Cardinality({i \in 1..Len(CollectedChanges) :
                                   /\ CollectedChanges[i].FromStatus # ""
                                   /\ Transition(CollectedChanges[i]) = t})

\* C20, witness: the first issue failed, the second has an empty history, the
\* third was requested and is the only one collected.
C20_Witness ==
    /\ kpc = "done"
    /\ Len(recentIssues) = 3
    /\ historyLog[1].outcome.err
    /\ ~historyLog[2].outcome.err
    /\ Len(historyLog[2].outcome.changes) = 0
    /\ Len(historyLog[3].outcome.changes) = 2
    /\ warnings = <<IssueKey(1)>>
    /\ allIssueKeys = <<IssueKey(3)>>
    /\ allIssueChanges = <<historyLog[3].outcome.changes>>
    /\ statusCounts["In Progress"] = 1
    /\ DOMAIN transitionCounts = {"To Do -> In Progress"}


(* ------------------------ the client's construction ------------------- *)

\* The configurations given to NewClient: each required field present or
\* empty, and the complete one with bearer authentication, a custom timeout,
\* the Local or another installation type.
Configs ==
    {ClientConfig(server, login, token, "", 0, "") :
        server \in {"", "https://test.atlassian.net"},
        login \in {"", "test@example.com"},
        token \in {"", "test-token"}}
    \cup {ClientConfig("https://test.atlassian.net", "test@example.com", "test-token",
                       "bearer", 0, ""),
          ClientConfig("https://test.atlassian.net", "test@example.com", "test-token",
                       "", 30, ""),
          ClientConfig("https://jira.company.com", "test@example.com", "test-token",
                       "", 0, InstallationTypeLocal),
          ClientConfig("https://jira.company.com", "", "test-token",
                       "bearer", 30, InstallationTypeLocal),
          ClientConfig("https://jira.company.com", "test@example.com", "test-token",
                       "", 0, "Server")}

\* An issue with two histories and a project of more than one page, before
\* NewClient is called.
InitClient ==
    /\ changelog = <<History(MillisStr(1), NilAuthor, <<StatusItem("", "To Do")>>),
                     History(Rfc3339Str(MaxTime), Alice,
                             <<StatusItem("To Do", "In Progress")>>)>>
    /\ fields = [Created |-> EmptyStr, Reporter |-> ""]
    /\ now = MaxTime + 1
    /\ Idle
    /\ installationType = ""
    /\ matching = batchSize + ShortPage
    /\ reportsTotal = TRUE
    /\ pageSizes = {batchSize}
    /\ SearchIdle
    /\ NoTool
    /\ config \in Configs
    /\ cpc = "new"
    /\ client = "nil"
    /\ rawClient = "nil"
    /\ clientErr = "nil"

\* The call of NewClient.
NewClientCall ==
    /\ cpc = "new"
    /\ cpc' = "built"
    /\ client' = NewClient(config).client
    /\ rawClient' = NewClient(config).raw
    /\ clientErr' = NewClient(config).err
    /\ installationType' = NewClient(config).installationType
    /\ UNCHANGED <<config, matching, reportsTotal, spc, op, maxResults, startAt, allIssues,
                   totalFetched, found, searchErr, searchLog, lastBody, lastResult,
                   pageSizes, jql, lastErr>>
    /\ UNCHANGED <<statusVars, toolVars>>

NextClient ==
    \/ NewClientCall
    \/ FetchIssue \/ FetchPage \/ Return
    \/ SearchIssues \/ GetAllIssues \/ GetIssuesByDateRange \/ ReturnSearch

\* A required field of the configuration is empty.
MissingField == config.Server = "" \/ config.Login = "" \/ config.APIToken = ""

ConfiguredType ==
    IF config.InstallationType = "" THEN "Cloud" ELSE config.InstallationType

\* The endpoint of a request is the legacy one exactly when the installation
\* type is "Local".
Legacy(request) == request.ver = "v2" <=> installationType = "Local"

\* C23: the installation type of a client is "Cloud" for a configuration
\* that leaves it empty and the configured string otherwise, in every state
\* after the construction; every search request and every issue or changelog
\* request of the client goes to the legacy endpoint exactly when the type is
\* "Local".
C23_DialectFixedAtConstruction ==
    (cpc = "built" /\ client # "nil")
        => /\ installationType = ConfiguredType
           /\ \A i \in 1..Len(searchLog) : Legacy(searchLog[i])
           /\ \A i \in 1..Len(requestLog) : Legacy(requestLog[i])

\* C23, witness: a client of an installation type that is neither "Cloud"
\* nor "Local" has searched two pages and fetched a changelog page, all
\* through the modern endpoint.
C23_Witness ==
    /\ cpc = "built"
    /\ config.InstallationType = "Server"
    /\ installationType = "Server"
    /\ Len(searchLog) = 2 /\ searchLog[2].ver = "v3"
    /\ Len(requestLog) = 2 /\ requestLog[2].path = "changelog" /\ requestLog[2].ver = "v3"

vars == <<statusVars, searchVars, toolVars, clientVars>>

\* A GetIssueStatusChanges call against a server holding any changelog.
Spec == Init /\ [][Next]_vars

\* The search operations against a server holding any number of issues.
SpecSearch == InitSearch /\ [][NextSearch]_vars

\* GetAllIssues against a server holding more than 10000 issues.
SpecUnknownTotal == InitUnknownTotal /\ [][NextUnknownTotal]_vars

\* calculateStatusTime on any sequence of status changes.
SpecStatusTime == InitStatusTime /\ [][NextStatusTime]_vars

\* trackProjectIssues over any search result and any outcome of each call.
SpecTrack == InitTrack /\ [][NextTrack]_vars

\* Two GetIssueStatusChanges calls for one issue, one after the other.
SpecTwoCalls == InitTwoCalls /\ [][NextTwoCalls]_vars

\* NewClient and the operations of the client it returns.
SpecClient == InitClient /\ [][NextClient]_vars

====
